---- MODULE Spec2Model ----
(***************************************************************************)
(* Model of src/embedding.py: the Embedding class, i.e. the token-usage    *)
(* tracker (token_usage, historical_list, update, remove) and the          *)
(* embedding operations layered on it (process, count_tokens,              *)
(* cosine_similarity).                                                     *)
(*                                                                         *)
(* Python values are modelled as follows.                                  *)
(*   - a TokenUsage object is a record with its four integer fields;       *)
(*     pydantic compares two TokenUsage objects field by field, and so     *)
(*     does record equality;                                               *)
(*   - an optional integer argument is a sequence: <<>> is None and <<n>>  *)
(*     is the integer n;                                                   *)
(*   - a Python list is a sequence; Python position i is position i+1.     *)
(***************************************************************************)
EXTENDS Integers, Sequences, FiniteSets

VARIABLES
    token_usage,      \* self.token_usage: the live current record
    historical_list,  \* self.historical_list: the snapshots, as they read now
    aliases,          \* aliases[k]: historical_list[k] is the very object
                      \* self.token_usage, not an object of its own
    call,             \* the most recent call: its name and arguments
    ret,              \* what that call returned or raised
    prompt_sum,       \* observer: sum of request+response of the updates
                      \* performed since the last remove(0) that succeeded
    kept,             \* a reference returned by an earlier update that the
                      \* caller still holds, and where that update's snapshot
                      \* now stands in the history
    threads,          \* two callers inside update at the same time: their
                      \* arguments, their position and their temporaries
    modules           \* the Embedding objects constructed by
                      \* get_embedding_module and the handles it returned

vars ==
    <<token_usage, historical_list, aliases, call, ret, prompt_sum,
      kept, threads, modules>>

----------------------------------------------------------------------------
(* Bounds of the model. *)

MaxHist == 3      \* update is not called on a history of this length
MaxTotal == 2     \* update is not called when it would exceed this total

----------------------------------------------------------------------------
(* Inputs. *)

None == <<>>

\* the request / response arguments of update: None, 0 or 1
TokenArgs == {None, <<0>>, <<1>>}

\* the index arguments of remove: every index valid for some history of the
\* model, and one more on each side
Indices == (0 - (MaxHist + 1))..MaxHist

Texts == {"", "hello"}

EncodingNames == {"cl100k_base", "no_such_encoding"}

Vectors == {<<1, 0>>, <<0, 0>>, <<1, 0, 0>>}

----------------------------------------------------------------------------
(* TokenUsage. *)

\* TokenUsage(): the record with every counter at its default
DefaultTokenUsage ==
    [total_tokens |-> 0, prompt_tokens |-> 0,
     request_tokens |-> 0, response_tokens |-> 0]

\* tu.model_dump(): the dictionary field name -> value
model_dump(tu) ==
    [f \in {"total_tokens", "prompt_tokens", "request_tokens", "response_tokens"}
        |-> tu[f]]

\* TokenUsage(**d): a new object built from the dictionary d
TokenUsage(d) ==
    [total_tokens |-> d["total_tokens"], prompt_tokens |-> d["prompt_tokens"],
     request_tokens |-> d["request_tokens"],
     response_tokens |-> d["response_tokens"]]

\* variant of OrZero: "x or 1"
OrZero_One(x) == IF x = None THEN 1 ELSE IF x[1] = 0 THEN 1 ELSE x[1]

\* x or 0, for x None or an integer
OrZero(x) == IF x = None THEN 0 ELSE IF x[1] = 0 THEN 0 ELSE x[1]

\* the value a request / response argument contributes to the observer
Count(x) == IF x = None THEN 0 ELSE x[1]

----------------------------------------------------------------------------
(* Returned values and raised errors: a kind and a sequence of integers. *)

\* return self.token_usage: the live current record, not a copy
CurrentRecord == [kind |-> "token_usage", val |-> <<>>]

\* a reference to a TokenUsage object other than self.token_usage; nothing
\* assigns to such an object, so it is known by its four fields
OtherRecord(tu) ==
    [kind |-> "snapshot",
     val |-> <<tu.total_tokens, tu.prompt_tokens,
               tu.request_tokens, tu.response_tokens>>]

\* the fields read through a reference while self.token_usage holds tu
Deref(ref, tu) ==
    IF ref.kind = "token_usage"
    THEN tu
    ELSE [total_tokens |-> ref.val[1], prompt_tokens |-> ref.val[2],
          request_tokens |-> ref.val[3], response_tokens |-> ref.val[4]]

Raised(error) == [kind |-> error, val |-> <<>>]

Returned(kind, val) == [kind |-> kind, val |-> val]

----------------------------------------------------------------------------
(* Python list operations used by remove. *)

\* variant of InRange: a negative index raises IndexError
InRange_NonNegative(list, index) == 0 <= index /\ index < Len(list)

\* list[index] does not raise IndexError
InRange(list, index) == (0 - Len(list)) <= index /\ index < Len(list)

\* the position list[index] reads; a negative index counts from the end
Position(list, index) ==
    IF index >= 0 THEN index + 1 ELSE Len(list) + index + 1

\* the position of the first element of list equal to x
FirstEqual(list, x) ==
    CHOOSE k \in 1..Len(list) :
        list[k] = x /\ \A j \in 1..(k - 1) : list[j] # x

\* variant of list_remove: every element equal to x is dropped
list_remove_all(list, x) == SelectSeq(list, LAMBDA e : e # x)

\* list.remove(x): list without its first element equal to x
list_remove(list, x) ==
    LET k == FirstEqual(list, x)
    IN  SubSeq(list, 1, k - 1) \o SubSeq(list, k + 1, Len(list))

----------------------------------------------------------------------------
(* The usage tracker. *)

\* variant of UpdatedUsage: total_tokens is assigned (=) instead of added (+=)
UpdatedUsage_Assign(tu, request, response) ==
    LET t1 == [tu EXCEPT !.request_tokens = OrZero(request)]
        t2 == [t1 EXCEPT !.response_tokens = OrZero(response)]
        t3 == [t2 EXCEPT !.prompt_tokens =
                            t2.request_tokens + t2.response_tokens]
    IN  [t3 EXCEPT !.total_tokens = t3.prompt_tokens]

\* variant of UpdatedUsage: prompt_tokens leaves out the response tokens
UpdatedUsage_RequestOnly(tu, request, response) ==
    LET t1 == [tu EXCEPT !.request_tokens = OrZero(request)]
        t2 == [t1 EXCEPT !.response_tokens = OrZero(response)]
        t3 == [t2 EXCEPT !.prompt_tokens = t2.request_tokens]
    IN  [t3 EXCEPT !.total_tokens = t3.total_tokens + t3.prompt_tokens]

\* the four assignments of update to self.token_usage
UpdatedUsage(tu, request, response) ==
    LET t1 == [tu EXCEPT !.request_tokens = OrZero(request)]
        t2 == [t1 EXCEPT !.response_tokens = OrZero(response)]
        t3 == [t2 EXCEPT !.prompt_tokens =
                            t2.request_tokens + t2.response_tokens]
    IN  [t3 EXCEPT !.total_tokens = t3.total_tokens + t3.prompt_tokens]

\* variant of ResetUsage: request_tokens is not reset
ResetUsage_KeepsRequest(tu) ==
    [tu EXCEPT !.total_tokens = 0, !.prompt_tokens = 0,
               !.response_tokens = 0]

\* the four assignments of remove to self.token_usage when index == 0
ResetUsage(tu) ==
    [tu EXCEPT !.total_tokens = 0, !.prompt_tokens = 0,
               !.request_tokens = 0, !.response_tokens = 0]

\* variant of IsReset: every removal is a reset
IsReset_Always(index) == TRUE

\* variant of IsReset: "index <= 0"
IsReset_NonPositive(index) == index <= 0

\* the test "index == 0" that makes remove a reset
IsReset(index) == index = 0

\* variant of NewSnapshotIsAlias: self.token_usage itself is appended
NewSnapshotIsAlias_Live == TRUE

\* TokenUsage(**self.token_usage.model_dump()) constructs a new object: the
\* snapshot appended to the history is not the object self.token_usage
NewSnapshotIsAlias == FALSE

\* the history as it reads once self.token_usage holds tu: an entry that is
\* the object self.token_usage shows tu, every other entry its own fields
Visible(list, alias, tu) ==
    [k \in 1..Len(list) |-> IF alias[k] THEN tu ELSE list[k]]

\* variant of update: the snapshot is appended before total_tokens is added to
update_SnapshotFirst(request, response) ==
    /\ token_usage' = UpdatedUsage(token_usage, request, response)
    /\ historical_list' =
           Append(Visible(historical_list, aliases, token_usage'),
                  [TokenUsage(model_dump(token_usage'))
                      EXCEPT !.total_tokens = token_usage.total_tokens])
    /\ aliases' = Append(aliases, NewSnapshotIsAlias)
    /\ prompt_sum' = prompt_sum + Count(request) + Count(response)

\* the body of update up to its return
update(request, response) ==
    /\ token_usage' = UpdatedUsage(token_usage, request, response)
    /\ historical_list' =
           Append(Visible(historical_list, aliases, token_usage'),
                  TokenUsage(model_dump(token_usage')))
    /\ aliases' = Append(aliases, NewSnapshotIsAlias)
    /\ prompt_sum' = prompt_sum + Count(request) + Count(response)

\* variant of UpdateReturn: the snapshot just appended is returned
UpdateReturn_Snapshot(tu) == OtherRecord(tu)

\* return self.token_usage, at the end of update, tu being its fields
UpdateReturn(tu) == CurrentRecord

\* update is called only while the model's bounds allow its result
UpdateWithinBounds(request, response) ==
    /\ Len(historical_list) < MaxHist
    /\ token_usage.total_tokens + Count(request) + Count(response) <= MaxTotal

\* variant of remove: the reset does not append a zeroed snapshot
remove_NoReseed(index) ==
    IF ~InRange(historical_list, index)
    THEN /\ ret' = Raised("IndexError")
         /\ UNCHANGED <<token_usage, historical_list, aliases, prompt_sum>>
    ELSE LET element == historical_list[Position(historical_list, index)]
             removed == list_remove(historical_list, element)
             k == FirstEqual(historical_list, element)
             kept_aliases == SubSeq(aliases, 1, k - 1)
                                 \o SubSeq(aliases, k + 1, Len(aliases))
         IN  /\ IF IsReset(index)
                THEN /\ token_usage' = ResetUsage(token_usage)
                     /\ historical_list' =
                            Visible(removed, kept_aliases, token_usage')
                     /\ aliases' = kept_aliases
                     /\ prompt_sum' = 0
                ELSE /\ historical_list' = removed
                     /\ aliases' = kept_aliases
                     /\ UNCHANGED <<token_usage, prompt_sum>>
             /\ ret' = CurrentRecord

\* variant of remove: the "index == 0" block runs before the element is looked
\* up, so that it has run when the lookup raises
remove_ResetFirst(index) ==
    IF ~InRange(historical_list, index)
    THEN /\ ret' = Raised("IndexError")
         /\ IF IsReset(index)
            THEN /\ token_usage' = ResetUsage(token_usage)
                 /\ historical_list' =
                        Append(Visible(historical_list, aliases, token_usage'),
                               TokenUsage(model_dump(token_usage')))
                 /\ aliases' = Append(aliases, NewSnapshotIsAlias)
                 /\ prompt_sum' = 0
            ELSE UNCHANGED <<token_usage, historical_list, aliases, prompt_sum>>
    ELSE LET element == historical_list[Position(historical_list, index)]
             removed == list_remove(historical_list, element)
             k == FirstEqual(historical_list, element)
             kept_aliases == SubSeq(aliases, 1, k - 1)
                                 \o SubSeq(aliases, k + 1, Len(aliases))
         IN  /\ IF IsReset(index)
                THEN /\ token_usage' = ResetUsage(token_usage)
                     /\ historical_list' =
                            Append(Visible(removed, kept_aliases, token_usage'),
                                   TokenUsage(model_dump(token_usage')))
                     /\ aliases' = Append(kept_aliases, NewSnapshotIsAlias)
                     /\ prompt_sum' = 0
                ELSE /\ historical_list' = removed
                     /\ aliases' = kept_aliases
                     /\ UNCHANGED <<token_usage, prompt_sum>>
             /\ ret' = CurrentRecord

\* remove(index)
remove(index) ==
    IF ~InRange(historical_list, index)
    THEN /\ ret' = Raised("IndexError")
         /\ UNCHANGED <<token_usage, historical_list, aliases, prompt_sum>>
    ELSE LET element == historical_list[Position(historical_list, index)]
             removed == list_remove(historical_list, element)
             k == FirstEqual(historical_list, element)
             kept_aliases == SubSeq(aliases, 1, k - 1)
                                 \o SubSeq(aliases, k + 1, Len(aliases))
         IN  /\ IF IsReset(index)
                THEN /\ token_usage' = ResetUsage(token_usage)
                     /\ historical_list' =
                            Append(Visible(removed, kept_aliases, token_usage'),
                                   TokenUsage(model_dump(token_usage')))
                     /\ aliases' = Append(kept_aliases, NewSnapshotIsAlias)
                     /\ prompt_sum' = 0
                ELSE /\ historical_list' = removed
                     /\ aliases' = kept_aliases
                     /\ UNCHANGED <<token_usage, prompt_sum>>
             /\ ret' = CurrentRecord

----------------------------------------------------------------------------
(* The tokenizer and the vector arithmetic the class delegates to. *)

KnownEncodings == {"cl100k_base"}

\* tiktoken.get_encoding(encoding_name).encode(text) on the texts of the model
encode(encoding_name, text) ==
    CASE encoding_name = "cl100k_base" /\ text = "" -> <<>>
      [] encoding_name = "cl100k_base" /\ text = "hello" -> <<15339>>

RECURSIVE dot(_, _)
\* np.dot(u, v) for two vectors of the same length
dot(u, v) ==
    IF Len(u) = 0 THEN 0 ELSE u[1] * v[1] + dot(Tail(u), Tail(v))

----------------------------------------------------------------------------
(* The embedding operations. *)

\* an EmbeddingRequest carries a text; any other argument (the str that the
\* module's __main__ block passes) has no attribute text
Requests ==
    {[has_text |-> TRUE, text |-> t] : t \in Texts}
        \cup {[has_text |-> FALSE, text |-> "hello world"]}

\* variant of count_tokens: the count is reported to the tracker, as process does
count_tokens_Reporting(string, encoding_name) ==
    IF encoding_name \in KnownEncodings
    THEN LET n == Len(encode(encoding_name, string))
         IN  /\ update(<<n>>, <<0>>)
             /\ ret' = Returned("int", <<n>>)
    ELSE /\ ret' = Raised("ValueError")
         /\ UNCHANGED <<token_usage, historical_list, aliases, prompt_sum>>

\* count_tokens(string, encoding_name)
count_tokens(string, encoding_name) ==
    /\ ret' = IF encoding_name \in KnownEncodings
              THEN Returned("int", <<Len(encode(encoding_name, string))>>)
              ELSE Raised("ValueError")
    /\ UNCHANGED <<token_usage, historical_list, aliases, prompt_sum>>

\* cosine_similarity(embedding1, embedding2): 1 - distance.cosine(u, v).
\* A float result is <<uv, uu, vv>>, standing for uv / sqrt(uu * vv).
cosine_similarity(embedding1, embedding2) ==
    /\ ret' = IF Len(embedding1) # Len(embedding2)
              THEN Raised("ValueError")
              ELSE LET uv == dot(embedding1, embedding2)
                       uu == dot(embedding1, embedding1)
                       vv == dot(embedding2, embedding2)
                   IN  IF uu * vv = 0
                       THEN Returned("nan", <<>>)
                       ELSE Returned("float", <<uv, uu, vv>>)
    /\ UNCHANGED <<token_usage, historical_list, aliases, prompt_sum>>

\* variant of process: the two arguments of update are swapped
process_Swapped(embedding_request) ==
    IF ~embedding_request.has_text
    THEN /\ ret' = Raised("AttributeError")
         /\ UNCHANGED <<token_usage, historical_list, aliases, prompt_sum>>
    ELSE LET request_data == embedding_request.text
             embedding == encode("cl100k_base", request_data)
         IN  /\ UpdateWithinBounds(<<Len(embedding)>>, <<0>>)
             /\ update(<<0>>, <<Len(embedding)>>)
             /\ ret' = Returned("list", embedding)

\* process(embedding_request)
process(embedding_request) ==
    IF ~embedding_request.has_text
    THEN /\ ret' = Raised("AttributeError")
         /\ UNCHANGED <<token_usage, historical_list, aliases, prompt_sum>>
    ELSE LET request_data == embedding_request.text
             embedding == encode("cl100k_base", request_data)
         IN  /\ UpdateWithinBounds(<<Len(embedding)>>, <<0>>)
             /\ update(<<Len(embedding)>>, <<0>>)
             /\ ret' = Returned("list", embedding)

----------------------------------------------------------------------------
(* A caller that holds on to the record an update returned. *)

NothingKept == [held |-> FALSE, ref |-> Returned("None", <<>>), entry |-> 0]

\* where the snapshot of the kept update stands after remove(index) on list:
\* 0 once it is removed, one place lower once an entry before it is removed
KeptAfterRemove(k, list, index) ==
    IF ~k.held \/ k.entry = 0 \/ ~InRange(list, index)
    THEN k
    ELSE LET gone == FirstEqual(list, list[Position(list, index)])
         IN  [k EXCEPT !.entry = IF gone = @ THEN 0
                                 ELSE IF gone < @ THEN @ - 1 ELSE @]

----------------------------------------------------------------------------
(* Two callers inside update at the same time, one statement at a time. *)

Threads == {1, 2}

\* no caller is inside update
NoThreads == <<>>

\* both callers are about to call update; serialized tells whether the callers
\* treat update as a critical section
StartOfThreads(serialized) ==
    [serialized |-> serialized,
     owner |-> 0,
     pc |-> [t \in Threads |-> "call"],
     request |-> [t \in Threads |-> None],
     response |-> [t \in Threads |-> None],
     tmp |-> [t \in Threads |-> 0],
     dump |-> [t \in Threads |-> model_dump(DefaultTokenUsage)]]

\* the critical section is free for thread t, or there is none
MayEnter(t) == ~threads.serialized \/ threads.owner = 0

\* variant of PromptValue: the response tokens are left out
PromptValue_RequestOnly(tu) == tu.request_tokens

\* the right-hand side of line 98
PromptValue(tu) == tu.request_tokens + tu.response_tokens

\* the value line 99 computes before it stores it
TotalValue(tu) == tu.total_tokens + tu.prompt_tokens

\* thread t moves to position pc
Goto(t, pc) == [threads EXCEPT !.pc[t] = pc]

\* what a statement that assigns a field of self.token_usage leaves alone
AssignmentFrame ==
    UNCHANGED <<historical_list, aliases, call, ret, prompt_sum, kept, modules>>

\* thread t calls update(request, response)
ThreadCall(t) ==
    \E request \in TokenArgs, response \in TokenArgs :
        /\ threads.pc[t] = "call"
        /\ MayEnter(t)
        /\ threads' = [threads EXCEPT !.pc[t] = "96",
                                      !.request[t] = request,
                                      !.response[t] = response,
                                      !.owner = IF threads.serialized
                                                THEN t ELSE @]
        /\ UNCHANGED token_usage
        /\ AssignmentFrame

\* self.token_usage.request_tokens = request or 0
Thread96(t) ==
    /\ threads.pc[t] = "96"
    /\ token_usage' = [token_usage EXCEPT
                           !.request_tokens = OrZero(threads.request[t])]
    /\ threads' = Goto(t, "97")
    /\ AssignmentFrame

\* self.token_usage.response_tokens = response or 0
Thread97(t) ==
    /\ threads.pc[t] = "97"
    /\ token_usage' = [token_usage EXCEPT
                           !.response_tokens = OrZero(threads.response[t])]
    /\ threads' = Goto(t, "98")
    /\ AssignmentFrame

\* line 98, evaluation of the right-hand side
Thread98Read(t) ==
    /\ threads.pc[t] = "98"
    /\ threads' = [threads EXCEPT !.pc[t] = "98w",
                                  !.tmp[t] = PromptValue(token_usage)]
    /\ UNCHANGED token_usage
    /\ AssignmentFrame

\* line 98, the assignment to prompt_tokens
Thread98Write(t) ==
    /\ threads.pc[t] = "98w"
    /\ token_usage' = [token_usage EXCEPT !.prompt_tokens = threads.tmp[t]]
    /\ threads' = Goto(t, "99")
    /\ AssignmentFrame

\* line 99, evaluation of total_tokens + prompt_tokens
Thread99Read(t) ==
    /\ threads.pc[t] = "99"
    /\ threads' = [threads EXCEPT !.pc[t] = "99w",
                                  !.tmp[t] = TotalValue(token_usage)]
    /\ UNCHANGED token_usage
    /\ AssignmentFrame

\* line 99, the assignment to total_tokens
Thread99Write(t) ==
    /\ threads.pc[t] = "99w"
    /\ token_usage' = [token_usage EXCEPT !.total_tokens = threads.tmp[t]]
    /\ threads' = Goto(t, "100")
    /\ AssignmentFrame

\* line 100, the argument of append: self.token_usage.model_dump()
Thread100Dump(t) ==
    /\ threads.pc[t] = "100"
    /\ threads' = [threads EXCEPT !.pc[t] = "100a",
                                  !.dump[t] = model_dump(token_usage)]
    /\ UNCHANGED token_usage
    /\ AssignmentFrame

\* line 100, self.historical_list.append(TokenUsage(**dump)): the copy is
\* built from the dump taken earlier, whatever the counters are by now
Thread100Append(t) ==
    /\ threads.pc[t] = "100a"
    /\ historical_list' =
           Append(historical_list, TokenUsage(threads.dump[t]))
    /\ aliases' = Append(aliases, NewSnapshotIsAlias)
    /\ threads' = Goto(t, "101")
    /\ UNCHANGED <<token_usage, call, ret, prompt_sum, kept, modules>>

\* return self.token_usage; a caller that serializes leaves its section
Thread101(t) ==
    /\ threads.pc[t] = "101"
    /\ threads' = [threads EXCEPT !.pc[t] = "done",
                                  !.owner = IF @ = t THEN 0 ELSE @]
    /\ UNCHANGED token_usage
    /\ AssignmentFrame

----------------------------------------------------------------------------
(* get_embedding_module and the objects it returns. *)

MaxModules == 2

\* get_embedding_module has not been called
NoModules == [instances |-> <<>>, handles |-> <<>>]

\* Embedding(): the tracker fields of a newly constructed object
NewEmbedding ==
    [token_usage |-> DefaultTokenUsage, historical_list |-> <<>>]

\* the object the handle returned by the h-th call refers to
InstanceOf(h) == modules.instances[modules.handles[h]]

\* embedding_model = Embedding(); return get_model(): every call constructs
\* an object and returns that object
get_embedding_module ==
    modules' =
        [instances |-> Append(modules.instances, NewEmbedding),
         handles |-> Append(modules.handles, Len(modules.instances) + 1)]

\* an object after process(EmbeddingRequest(text)) on it
Processed(instance, text) ==
    LET embedding == encode("cl100k_base", text)
        usage == UpdatedUsage(instance.token_usage, <<Len(embedding)>>, <<0>>)
    IN  [token_usage |-> usage,
         historical_list |-> Append(instance.historical_list,
                                    TokenUsage(model_dump(usage)))]

\* the bounds of the tracker, on one object
ProcessWithinBounds(instance, text) ==
    /\ Len(instance.historical_list) < MaxHist
    /\ instance.token_usage.total_tokens
           + Len(encode("cl100k_base", text)) <= MaxTotal

----------------------------------------------------------------------------
(* The state machine: one action per public method. *)

Init ==
    /\ token_usage = DefaultTokenUsage
    /\ historical_list = <<>>
    /\ aliases = <<>>
    /\ call = [op |-> "__init__"]
    /\ ret = Returned("None", <<>>)
    /\ prompt_sum = 0
    /\ kept = NothingKept
    /\ threads = NoThreads
    /\ modules = NoModules

Update ==
    \E request \in TokenArgs, response \in TokenArgs :
        /\ UpdateWithinBounds(request, response)
        /\ update(request, response)
        /\ ret' = UpdateReturn(token_usage')
        /\ call' = [op |-> "update", request |-> request, response |-> response]
        /\ UNCHANGED <<kept, threads, modules>>

Remove ==
    \E index \in Indices :
        /\ remove(index)
        /\ call' = [op |-> "remove", index |-> index]
        /\ kept' = KeptAfterRemove(kept, historical_list, index)
        /\ UNCHANGED <<threads, modules>>

CountTokens ==
    \E string \in Texts, encoding_name \in EncodingNames :
        /\ count_tokens(string, encoding_name)
        /\ call' = [op |-> "count_tokens", string |-> string,
                    encoding_name |-> encoding_name]
        /\ UNCHANGED <<kept, threads, modules>>

CosineSimilarity ==
    \E embedding1 \in Vectors, embedding2 \in Vectors :
        /\ cosine_similarity(embedding1, embedding2)
        /\ call' = [op |-> "cosine_similarity", embedding1 |-> embedding1,
                    embedding2 |-> embedding2]
        /\ UNCHANGED <<kept, threads, modules>>

Process ==
    \E embedding_request \in Requests :
        /\ process(embedding_request)
        /\ call' = [op |-> "process", embedding_request |-> embedding_request]
        /\ UNCHANGED <<kept, threads, modules>>

\* x = update(...): the caller keeps the reference the last update returned
Keep ==
    /\ call.op = "update"
    /\ ~kept.held
    /\ kept' = [held |-> TRUE, ref |-> ret, entry |-> Len(historical_list)]
    /\ UNCHANGED <<token_usage, historical_list, aliases, call, ret,
                   prompt_sum, threads, modules>>

Next == Update \/ Remove \/ CountTokens \/ CosineSimilarity \/ Process

Spec == Init /\ [][Next]_vars

\* update(request, 0) with request 0 or 1: the updates of the caller that
\* keeps a returned record
UpdateRequest ==
    \E request \in {<<0>>, <<1>>} :
        /\ UpdateWithinBounds(request, <<0>>)
        /\ update(request, <<0>>)
        /\ ret' = UpdateReturn(token_usage')
        /\ call' = [op |-> "update", request |-> request, response |-> <<0>>]
        /\ UNCHANGED <<kept, threads, modules>>

\* two callers of update on a tracker just constructed
InitThreads ==
    /\ token_usage = DefaultTokenUsage
    /\ historical_list = <<>>
    /\ aliases = <<>>
    /\ call = [op |-> "__init__"]
    /\ ret = Returned("None", <<>>)
    /\ prompt_sum = 0
    /\ kept = NothingKept
    /\ threads \in {StartOfThreads(serialized) : serialized \in BOOLEAN}
    /\ modules = NoModules

NextThreads ==
    \E t \in Threads :
        \/ ThreadCall(t)
        \/ Thread96(t)
        \/ Thread97(t)
        \/ Thread98Read(t)
        \/ Thread98Write(t)
        \/ Thread99Read(t)
        \/ Thread99Write(t)
        \/ Thread100Dump(t)
        \/ Thread100Append(t)
        \/ Thread101(t)

SpecThreads == InitThreads /\ [][NextThreads]_vars

\* module = get_embedding_module()
GetEmbeddingModule ==
    /\ Len(modules.handles) < MaxModules
    /\ get_embedding_module
    /\ UNCHANGED <<token_usage, historical_list, aliases, call, ret,
                   prompt_sum, kept, threads>>

\* module.process(EmbeddingRequest(text)) through the h-th returned handle
ProcessVia ==
    \E h \in 1..Len(modules.handles), text \in Texts :
        /\ ProcessWithinBounds(InstanceOf(h), text)
        /\ modules' = [modules EXCEPT
                           !.instances[modules.handles[h]] =
                               Processed(InstanceOf(h), text)]
        /\ UNCHANGED <<token_usage, historical_list, aliases, call, ret,
                       prompt_sum, kept, threads>>

NextModules == GetEmbeddingModule \/ ProcessVia

SpecModules == Init /\ [][NextModules]_vars

\* the tracker with a caller that keeps one returned record
NextKept == UpdateRequest \/ Remove \/ Keep

SpecKept == Init /\ [][NextKept]_vars

----------------------------------------------------------------------------
(* Properties of the usage tracker. *)

ZeroSnapshot ==
    [total_tokens |-> 0, prompt_tokens |-> 0,
     request_tokens |-> 0, response_tokens |-> 0]

\* the snapshot invariant of one record
Balanced(tu) == tu.prompt_tokens = tu.request_tokens + tu.response_tokens

\* the last call was remove and it returned
RemoveSucceeded == call.op = "remove" /\ ret.kind = "token_usage"

\* C1: total_tokens equals the sum of request + response over the updates
\* performed since the last successful remove(0), or since construction;
\* removals at other indices do not change it.
C1_TotalIsSumSinceReset == token_usage.total_tokens = prompt_sum

\* C1 witness: after a reset (the oldest snapshot holds a larger total than
\* the current one) an update has added a positive count.
C1_Witness ==
    /\ call.op = "update"
    /\ Len(historical_list) >= 2
    /\ historical_list[1].total_tokens > token_usage.total_tokens
    /\ token_usage.total_tokens > 0
    /\ token_usage.total_tokens = prompt_sum

\* C2: the current record and every snapshot of the history satisfy
\* prompt_tokens = request_tokens + response_tokens, and update(a, b)
\* returns the current record with prompt_tokens = a + b.
C2_PromptIsRequestPlusResponse ==
    /\ Balanced(token_usage)
    /\ \A k \in 1..Len(historical_list) : Balanced(historical_list[k])
    /\ call.op = "update" =>
          /\ ret = CurrentRecord
          /\ token_usage.prompt_tokens =
                 Count(call.request) + Count(call.response)

\* C2 witness: update was called with a positive request and a positive
\* response count on a history that already held a snapshot.
C2_Witness ==
    /\ call.op = "update"
    /\ Count(call.request) > 0
    /\ Count(call.response) > 0
    /\ Len(historical_list) >= 2
    /\ token_usage.prompt_tokens = 2

\* the sequence list without the element at position k (1-based)
DeleteAt(list, k) == SubSeq(list, 1, k - 1) \o SubSeq(list, k + 1, Len(list))

\* the step is a call of remove(index) that returns
RemoveReturns(index) ==
    /\ call'.op = "remove"
    /\ call'.index = index
    /\ ret'.kind = "token_usage"

\* C3: a successful remove(index) deletes exactly the snapshot at position
\* index and keeps the others in order (for index 0, followed by the appended
\* zeroed snapshot), also when the history holds equal snapshots.
C3_RemovesSnapshotAtIndex ==
    [][\A index \in 0..MaxHist :
          RemoveReturns(index) =>
              historical_list' =
                  IF index = 0
                  THEN Append(DeleteAt(historical_list, 1), ZeroSnapshot)
                  ELSE DeleteAt(historical_list, index + 1)]_vars

\* the step is a call of remove(index) with index outside [0, length)
RemoveOutside(index) ==
    /\ call'.op = "remove"
    /\ call'.index = index
    /\ (index >= Len(historical_list) \/ index < 0)

\* C4 as stated: remove with index >= length or index < 0 raises IndexError.
C4_OutsideZeroToLengthFails ==
    [][\A index \in Indices :
          RemoveOutside(index) => ret'.kind = "IndexError"]_vars

\* C4 amended: remove raises IndexError exactly when index >= length or
\* index < -length; an index in [-length, 0) is accepted and counts from the
\* end of the history.
C4_FailsExactlyOutsidePythonRange ==
    [][\A index \in Indices :
          (call'.op = "remove" /\ call'.index = index) =>
              (ret'.kind = "IndexError" <=>
                  (index >= Len(historical_list)
                      \/ index < 0 - Len(historical_list)))]_vars

\* C4 witness: on a non-empty history a negative index below -length was
\* refused with IndexError.
C4_Witness ==
    /\ call.op = "remove"
    /\ call.index < 0 - Len(historical_list)
    /\ Len(historical_list) > 0
    /\ ret.kind = "IndexError"

\* C5: a successful remove(0) leaves the four current counters at 0, a zeroed
\* snapshot as the last entry of a non-empty history, and returns the current
\* record.
C5_RemoveZeroResets ==
    (RemoveSucceeded /\ call.index = 0) =>
        /\ token_usage = ZeroSnapshot
        /\ Len(historical_list) >= 1
        /\ historical_list[Len(historical_list)] = ZeroSnapshot
        /\ ret = CurrentRecord

\* C5 witness: remove(0) returned on a history whose surviving oldest
\* snapshot records a positive request count.
C5_Witness ==
    /\ RemoveSucceeded
    /\ call.index = 0
    /\ Len(historical_list) >= 2
    /\ historical_list[1].request_tokens > 0
    /\ token_usage.request_tokens = 0

\* C6: a successful remove(i) with i # 0 leaves the four current counters
\* unchanged.
C6_RemoveNonZeroKeepsCounters ==
    [][\A index \in Indices \ {0} :
          RemoveReturns(index) => token_usage' = token_usage]_vars

\* C6 witness: remove with a non-zero index returned while the current
\* counters were positive.
C6_Witness ==
    /\ RemoveSucceeded
    /\ call.index # 0
    /\ token_usage.total_tokens > 0
    /\ token_usage.request_tokens > 0

\* C7: the history grows by one on every update, shrinks by one on every
\* successful remove(i) with i # 0 and keeps its length on every successful
\* remove(0).
C7_HistoryLengthSteps ==
    [][/\ call'.op = "update" =>
              Len(historical_list') = Len(historical_list) + 1
       /\ \A index \in Indices :
              RemoveReturns(index) =>
                  Len(historical_list') =
                      IF index = 0 THEN Len(historical_list)
                                   ELSE Len(historical_list) - 1]_vars

\* C7 witness: remove(0) returned on a history of at least two snapshots, the
\* oldest of which equals the one before the appended zero snapshot.
C7_Witness ==
    /\ RemoveSucceeded
    /\ call.index = 0
    /\ Len(historical_list) >= 3
    /\ historical_list[1] = historical_list[2]

\* C8: total_tokens is lowered only by a successful remove(0); no update and
\* no remove(i) with i # 0 lowers it.
C8_TotalDecreasesOnlyOnReset ==
    [][token_usage'.total_tokens < token_usage.total_tokens =>
          RemoveReturns(0)]_vars

\* C8 witness: an update raised a total that was already positive.
C8_Witness ==
    /\ call.op = "update"
    /\ token_usage.prompt_tokens > 0
    /\ token_usage.total_tokens > token_usage.prompt_tokens

----------------------------------------------------------------------------
(* Properties of the embedding operations. *)

\* C9: a process call that returns performs one update with request_tokens =
\* length of the returned sequence and response_tokens = 0: total_tokens grows
\* by that length, one snapshot is appended, and the returned value is the
\* tokenizer's sequence.
C9_ProcessReportsReturnedLength ==
    [][(call'.op = "process" /\ ret'.kind = "list") =>
          LET n == Len(ret'.val)
              snapshot == [total_tokens |-> token_usage.total_tokens + n,
                           prompt_tokens |-> n,
                           request_tokens |-> n,
                           response_tokens |-> 0]
          IN  /\ ret'.val = encode("cl100k_base", call'.embedding_request.text)
              /\ token_usage' = snapshot
              /\ historical_list' = Append(historical_list, snapshot)]_vars

\* C9 witness: process returned a non-empty sequence on a tracker that had
\* already counted tokens.
C9_Witness ==
    /\ call.op = "process"
    /\ ret.kind = "list"
    /\ Len(ret.val) = 1
    /\ token_usage.request_tokens = 1
    /\ token_usage.total_tokens = 2
    /\ Len(historical_list) >= 2

\* C10: count_tokens and cosine_similarity, returning or raising, leave the
\* current counters and the history unchanged.
C10_PureOperationsKeepTracker ==
    [][call'.op \in {"count_tokens", "cosine_similarity"} =>
          /\ token_usage' = token_usage
          /\ historical_list' = historical_list]_vars

\* C10 witness: count_tokens returned a positive count on a tracker with a
\* non-empty history.
C10_Witness ==
    /\ call.op = "count_tokens"
    /\ ret.kind = "int"
    /\ ret.val[1] > 0
    /\ Len(historical_list) > 0
    /\ token_usage.total_tokens > 0

----------------------------------------------------------------------------
(* Properties of the snapshots as objects. *)

\* the entries of list keep their position and their fields in later
IsPrefix(list, later) ==
    /\ Len(list) <= Len(later)
    /\ \A k \in 1..Len(list) : later[k] = list[k]

\* C11: a snapshot does not change once appended: in every step, every entry
\* of the history that the step does not remove has the same four fields
\* afterwards, whatever the step does to the current counters.
C11_SnapshotsKeepTheirFields ==
    [][IF call'.op = "remove" /\ ret'.kind = "token_usage"
       THEN \E p \in 1..Len(historical_list) :
                IsPrefix(DeleteAt(historical_list, p), historical_list')
       ELSE IsPrefix(historical_list, historical_list')]_vars

\* C11 witness: remove(0) has reset the current counters in place while two
\* older snapshots still show the totals 1 and 2 they were appended with.
C11_Witness ==
    /\ RemoveSucceeded
    /\ call.index = 0
    /\ Len(historical_list) = 3
    /\ historical_list[1].total_tokens = 1
    /\ historical_list[2].total_tokens = 2
    /\ token_usage.total_tokens = 0
    /\ aliases = <<FALSE, FALSE, FALSE>>

\* the last call was a remove(0) that returned: a reset
ResetJustDone == RemoveSucceeded /\ call.index = 0

\* the step is a remove with a negative index that returns
NegativeRemoveReturns ==
    /\ call'.op = "remove"
    /\ call'.index < 0
    /\ ret'.kind = "token_usage"

\* C12 as stated, for the first state after a reset: whatever is called next,
\* the history is not empty afterwards.
C12_NonEmptyAfterReset ==
    [][ResetJustDone => Len(historical_list') >= 1]_vars

\* C12 amended: a reset leaves the history non-empty, and a non-empty history
\* stays non-empty through every update, process, failed remove and successful
\* remove with a non-negative index; only a successful remove with a negative
\* index can empty it.
C12_NonEmptyUnlessNegativeRemove ==
    [][(RemoveReturns(0)
           \/ (Len(historical_list) >= 1 /\ ~NegativeRemoveReturns))
          => Len(historical_list') >= 1]_vars

\* C12 witness: a reset on a one-entry history has left exactly the zeroed
\* snapshot.
C12_Witness ==
    /\ ResetJustDone
    /\ historical_list = <<ZeroSnapshot>>
    /\ prompt_sum = 0

\* what update(request, response) leaves in the current record when an absent
\* argument counts as 0
ExpectedUsage(tu, request, response) ==
    [total_tokens |-> tu.total_tokens + Count(request) + Count(response),
     prompt_tokens |-> Count(request) + Count(response),
     request_tokens |-> Count(request),
     response_tokens |-> Count(response)]

\* C13: update never raises and treats None as 0: the counters and the
\* appended snapshot depend on an argument only through its count, which is 0
\* for None as for 0, so update(x, None) leaves what update(x, 0) leaves.
C13_NoneCountsAsZero ==
    [][call'.op = "update" =>
          /\ ret' = CurrentRecord
          /\ token_usage' =
                 ExpectedUsage(token_usage, call'.request, call'.response)
          /\ historical_list' = Append(historical_list, token_usage')]_vars

\* C13 witness: update(1, None) has been called on a tracker that had counted
\* a token before.
C13_Witness ==
    /\ call.op = "update"
    /\ call.request = <<1>>
    /\ call.response = None
    /\ token_usage.response_tokens = 0
    /\ token_usage.total_tokens = 2

\* C16: a remove that raises IndexError leaves the history and the four
\* current counters as they were; remove(0) on an empty history raises and
\* leaves the history empty.
C16_FailedRemoveChangesNothing ==
    [][call'.op = "remove" =>
          /\ ret'.kind = "IndexError" =>
                 /\ token_usage' = token_usage
                 /\ historical_list' = historical_list
          /\ (call'.index = 0 /\ historical_list = <<>>) =>
                 /\ ret'.kind = "IndexError"
                 /\ historical_list' = <<>>]_vars

\* C16 witness: remove(0) has raised IndexError on the empty history of a
\* tracker whose counters were never touched.
C16_Witness ==
    /\ call.op = "remove"
    /\ call.index = 0
    /\ ret.kind = "IndexError"
    /\ historical_list = <<>>
    /\ token_usage = DefaultTokenUsage

\* the last call appended a snapshot: an update, a process that returned, or a
\* reset
SnapshotJustAppended ==
    \/ call.op = "update"
    \/ call.op = "process" /\ ret.kind = "list"
    \/ ResetJustDone

\* C17: right after every update, every process that returns and every
\* successful remove(0), the last entry of the history equals the current
\* counters field for field.  (After a successful remove with another index
\* it need not: C17_Witness.)
C17_LastEntryIsCurrent ==
    SnapshotJustAppended =>
        /\ Len(historical_list) >= 1
        /\ historical_list[Len(historical_list)] = token_usage

\* C17 witness: a remove with a non-zero index has removed the most recent
\* snapshot; the current counters keep its values and differ from the entry
\* that is now last.
C17_Witness ==
    /\ RemoveSucceeded
    /\ call.index # 0
    /\ Len(historical_list) >= 1
    /\ historical_list[Len(historical_list)] # token_usage
    /\ token_usage.total_tokens > 0

\* C18: update and remove return the live current record, not the snapshot
\* stored in the history: read at any later time, the record an earlier
\* update returned shows the counters of that time (after a later update or
\* remove(0), the new ones), while the snapshot that update appended keeps
\* its fields for as long as it is in the history.
C18_ReturnedRecordIsLive ==
    [][/\ (call'.op = "update" \/ RemoveReturns(call'.index)) =>
              ret' = CurrentRecord
       /\ (kept.held /\ kept'.held) =>
              /\ Deref(kept'.ref, token_usage') = token_usage'
              /\ kept'.entry > 0 =>
                     historical_list'[kept'.entry] =
                         historical_list[kept.entry]]_vars

\* C18 witness: after a later remove(0) the kept record reads all zero while
\* the snapshot appended by the update that returned it still reads total 1.
C18_Witness ==
    /\ kept.held
    /\ kept.ref = CurrentRecord
    /\ ResetJustDone
    /\ kept.entry > 0
    /\ historical_list[kept.entry].total_tokens = 1
    /\ Deref(kept.ref, token_usage) = ZeroSnapshot

----------------------------------------------------------------------------
(* Properties of concurrent callers. *)

\* both callers have returned from update
BothDone == \A t \in Threads : threads.pc[t] = "done"

\* the sum of the request and response counts of the two callers
CallersSum ==
    Count(threads.request[1]) + Count(threads.response[1])
        + Count(threads.request[2]) + Count(threads.response[2])

\* a snapshot in the history is unbalanced
SomeSnapshotUnbalanced ==
    \E k \in 1..Len(historical_list) : ~Balanced(historical_list[k])

\* C14: when the two callers run update as critical sections, every appended
\* snapshot has prompt_tokens = request_tokens + response_tokens and, once
\* both have returned, total_tokens is the sum of their request + response
\* counts.  (Without serialization such states are reachable: C14_Witness.)
C14_SerializedUpdatesAreSound ==
    threads.serialized =>
        /\ ~SomeSnapshotUnbalanced
        /\ BothDone => token_usage.total_tokens = CallersSum

\* C14 witness: with the statements of two unserialized updates interleaved,
\* both callers have returned, a snapshot in the history is unbalanced and
\* total_tokens is not the sum of the callers' counts.
C14_Witness ==
    /\ ~threads.serialized
    /\ BothDone
    /\ SomeSnapshotUnbalanced
    /\ token_usage.total_tokens # CallersSum

----------------------------------------------------------------------------
(* Properties of get_embedding_module. *)

\* C15: get_embedding_module is a cached singleton: the counters and the
\* history read through any two returned handles are the same.
C15_HandlesShareUsage ==
    \A h1, h2 \in 1..Len(modules.handles) : InstanceOf(h1) = InstanceOf(h2)

====
